---------------------------- MODULE Spec2Model ----------------------------
(***************************************************************************)
(* Model of the runtime of mixin-types (src/src/index.ts): the two         *)
(* functions `mixins` and `mixinsWith`, each one Array.prototype.reduce    *)
(* of the callback (ExtBase, mixin) => mixin(ExtBase) over the rest        *)
(* arguments, seeded with Object or with the given Base.                   *)
(*                                                                         *)
(* JavaScript values are records [t, id]; classes live in a heap (a        *)
(* sequence of [parent, own]) and are identified by their index, so that   *)
(* identity, mutation and inheritance are observable.  The mixins a caller *)
(* passes are drawn from a small set of entry kinds (Entries).             *)
(***************************************************************************)
EXTENDS Integers, Sequences, FiniteSets, TLC

VARIABLES
    chain,      \* the rest arguments `...mixins` the caller passes
    base,       \* the `Base` argument the caller passes to mixinsWith
    heap,       \* the class objects: heap[id] = [parent, own]
    log,        \* what the adders observed: invoke / return / throw events
    calls,      \* the completed calls, oldest first
    other,      \* the arguments of a second, independent caller
    instance,   \* the object made with `new` from a class a call returned
    it,         \* an index type being moved along one of the iterator types
    ty,         \* the evaluation of the parameter types of a call
    mg          \* the evaluation of the return type of a call

vars == <<chain, base, heap, log, calls, other, instance, it, ty, mg>>

-----------------------------------------------------------------------------
(* Bounds of the model *)

\* longest argument list of the exhaustive specification
MaxLen == 3
\* number of calls one behaviour makes
MaxCalls == 2
\* longest argument list of the long-chain specification
MaxLong == 22
\* longest argument list of the first caller when there are two callers
MaxTwo == 2
\* longest argument list of the counter and label scenario
MaxScenario == 2
\* the most calls of increment on the instance
MaxCount == 2
\* the largest number literal type an iteration starts from
MaxIndex == 23
\* the longest tuple of mixin types that is evaluated
MaxTuple == 3
\* the longest tuple of the long tuples that are evaluated
MaxLongTuple == 22

\* the number of mixins the typeguard evaluates (the length of the iterators
\* IterateBackwards / IterateForwards); no limit of the runtime
TypeGuardLimit == 20

-----------------------------------------------------------------------------
(* JavaScript values *)

Val(t, id) == [t |-> t, id |-> id]

\* the global `Object` constructor, the seed of `mixins`
ObjectCtor == Val("class", 1)
\* a caller's class, `class MyBase { static STATIC_ONE = 1; ... }`
MyBase == Val("class", 2)
\* a value that is no construct
Five == Val("prim", 5)
Undefined == Val("undef", 0)

\* exceptions
E1 == Val("E1", 0)
TypeErrorNotAFunction == Val("TypeError: mixin is not a function", 0)
TypeErrorNotAConstructor == Val("TypeError: Class extends value is not a constructor", 0)
TypeErrorMemberNotAFunction == Val("TypeError: Base.a is not a function", 0)
TypeErrorCannotCreateProperty == Val("TypeError: Cannot create property", 0)
TypeErrorCannotUseIn == Val("TypeError: Cannot use 'in' operator", 0)

\* completion of a call: a returned value, or an exception and who raised it
Return(v) == [kind |-> "return", val |-> v, by |-> "none"]
Throw(e, who) == [kind |-> "throw", val |-> e, by |-> who]

HeapInit == << [parent |-> 0, own |-> {}],
               [parent |-> 0, own |-> {"STATIC_ONE"}] >>

RECURSIVE HasMember(_, _, _)
\* `m in C`: own or inherited member of the class with this id
HasMember(h, id, m) ==
    /\ id # 0
    /\ \/ m \in h[id].own
       \/ HasMember(h, h[id].parent, m)

-----------------------------------------------------------------------------
(* The entries a caller passes *)

\* the mixins (functions)
Adders == {"addA", "addB", "addNeedsA", "addUsesA", "addMut", "addThrow",
           "retPrim", "ident"}
\* every entry kind: the mixins and a value that is not a function
Entries == Adders \cup {"notFn"}

\* the mixins of the counter and label scenario
ScenarioAdders == {"addCounter", "addLabel"}

\* a mixin with an optional second parameter
OptionalAdders == {"addOpt"}

IsCallable(mixin) == mixin \in Adders \cup ScenarioAdders \cup OptionalAdders

\* `class M extends Base { members }`: a new class object, or the TypeError
\* of an `extends` clause whose value is no constructor
ClassExtends(h, Base, members) ==
    IF Base.t # "class"
    THEN [heap |-> h, out |-> Throw(TypeErrorNotAConstructor, "adder")]
    ELSE [heap |-> Append(h, [parent |-> Base.id, own |-> members]),
          out |-> Return(Val("class", Len(h) + 1))]

\* mixin(Base): the adder's effect on the heap and its completion
ApplyAdder(mixin, h, Base) ==
    CASE mixin = "addA" -> ClassExtends(h, Base, {"a"})
      [] mixin = "addB" -> ClassExtends(h, Base, {"b"})
      [] mixin = "addNeedsA" ->
            \* Base => class extends Base { static na = Base.a() }
            IF Base.t # "class" THEN ClassExtends(h, Base, {})
            ELSE IF ~HasMember(h, Base.id, "a")
            THEN [heap |-> h, out |-> Throw(TypeErrorMemberNotAFunction, "adder")]
            ELSE ClassExtends(h, Base, {"na"})
      [] mixin = "addUsesA" ->
            \* Base => { const k = ("a" in Base) ? "ua1" : "ua0";
            \*           return class extends Base { static [k] = true } }
            \* `in` throws for a right operand that is no object
            IF Base.t # "class"
            THEN [heap |-> h, out |-> Throw(TypeErrorCannotUseIn, "adder")]
            ELSE IF HasMember(h, Base.id, "a")
            THEN ClassExtends(h, Base, {"ua1"})
            ELSE ClassExtends(h, Base, {"ua0"})
      [] mixin = "addMut" ->
            \* Base => { Base.m = true; return Base; }  (strict mode)
            IF Base.t # "class"
            THEN [heap |-> h, out |-> Throw(TypeErrorCannotCreateProperty, "adder")]
            ELSE [heap |-> [h EXCEPT ![Base.id].own = @ \cup {"m"}],
                  out |-> Return(Base)]
      [] mixin = "addThrow" -> [heap |-> h, out |-> Throw(E1, "adder")]
      [] mixin = "retPrim" -> [heap |-> h, out |-> Return(Five)]
      [] mixin = "ident" -> [heap |-> h, out |-> Return(Base)]
      [] mixin = "addCounter" ->
            \* Base => class extends Base { count = 0; increment() { this.count += 1 } }
            ClassExtends(h, Base, {"count", "increment"})
      [] mixin = "addLabel" ->
            \* Base => class extends Base { label = "" }
            ClassExtends(h, Base, {"label"})
      [] mixin = "addOpt" ->
            \* (Base, extra) => class extends Base { ... }, extra absent
            ClassExtends(h, Base, {"noExtra"})

\* mixin(...args): the mixin called with the arguments args, the first its
\* Base.  Only a mixin that declares a second parameter looks at it:
\* (Base, extra) => class extends Base
\*     { static [extra === undefined ? "noExtra" : "gotExtra"] = true }
Call(mixin, h, args) ==
    IF mixin \in OptionalAdders /\ Len(args) > 1 /\ args[2] # Undefined
    THEN ClassExtends(h, args[1], {"gotExtra"})
    ELSE ApplyAdder(mixin, h, args[1])

Event(ev, call, idx, fn, val) ==
    [ev |-> ev, call |-> call, idx |-> idx, fn |-> fn, val |-> val]

-----------------------------------------------------------------------------
(* src/src/index.ts: mixins and mixinsWith *)

\* mutant: (ExtBase, mixin) => mixin(mixin(ExtBase))
Callback_twice(s, ExtBase, mixin, index) ==
    IF ~IsCallable(mixin)
    THEN [s EXCEPT !.out = Throw(TypeErrorNotAFunction, "fold")]
    ELSE LET r1 == ApplyAdder(mixin, s.heap, ExtBase)
             r == IF r1.out.kind = "throw" THEN r1
                  ELSE ApplyAdder(mixin, r1.heap, r1.out.val)
         IN  [s EXCEPT
                !.heap = r.heap,
                !.log = s.log \o
                    << Event("invoke", s.call, index, mixin, ExtBase),
                       Event(r1.out.kind, s.call, index, mixin, r1.out.val) >> \o
                    (IF r1.out.kind = "throw" THEN <<>>
                     ELSE << Event("invoke", s.call, index, mixin, r1.out.val),
                             Event(r.out.kind, s.call, index, mixin, r.out.val) >>),
                !.out = r.out]

\* mutant: try { return mixin(ExtBase) } catch { return ExtBase }
Callback_swallow(s, ExtBase, mixin, index) ==
    IF ~IsCallable(mixin)
    THEN [s EXCEPT !.out = Throw(TypeErrorNotAFunction, "fold")]
    ELSE LET r == ApplyAdder(mixin, s.heap, ExtBase)
         IN  [s EXCEPT
                !.heap = r.heap,
                !.log = s.log \o
                    << Event("invoke", s.call, index, mixin, ExtBase),
                       Event(r.out.kind, s.call, index, mixin, r.out.val) >>,
                !.out = IF r.out.kind = "throw" THEN Return(ExtBase) ELSE r.out]

\* mutant: the callback checks that ExtBase is a class and throws otherwise
Callback_validates(s, ExtBase, mixin, index) ==
    IF ExtBase.t # "class"
    THEN [s EXCEPT !.out = Throw(TypeErrorNotAConstructor, "fold")]
    ELSE IF ~IsCallable(mixin)
    THEN [s EXCEPT !.out = Throw(TypeErrorNotAFunction, "fold")]
    ELSE LET r == ApplyAdder(mixin, s.heap, ExtBase)
         IN  [s EXCEPT
                !.heap = r.heap,
                !.log = s.log \o
                    << Event("invoke", s.call, index, mixin, ExtBase),
                       Event(r.out.kind, s.call, index, mixin, r.out.val) >>,
                !.out = r.out]

\* mutant: a result that is no class is replaced by ExtBase
Callback_coerces(s, ExtBase, mixin, index) ==
    IF ~IsCallable(mixin)
    THEN [s EXCEPT !.out = Throw(TypeErrorNotAFunction, "fold")]
    ELSE LET r == ApplyAdder(mixin, s.heap, ExtBase)
         IN  [s EXCEPT
                !.heap = r.heap,
                !.log = s.log \o
                    << Event("invoke", s.call, index, mixin, ExtBase),
                       Event(r.out.kind, s.call, index, mixin, r.out.val) >>,
                !.out = IF r.out.kind = "return" /\ r.out.val.t # "class"
                        THEN Return(ExtBase) ELSE r.out]

\* mutant: the members of the class the mixin returns are copied onto
\* ExtBase, which is kept as the accumulator (extendClassMethods)
Callback_extendInPlace(s, ExtBase, mixin, index) ==
    IF ~IsCallable(mixin)
    THEN [s EXCEPT !.out = Throw(TypeErrorNotAFunction, "fold")]
    ELSE LET r == ApplyAdder(mixin, s.heap, ExtBase)
             copy == /\ r.out.kind = "return"
                     /\ r.out.val.t = "class"
                     /\ ExtBase.t = "class"
         IN  [s EXCEPT
                !.heap = IF copy
                         THEN [r.heap EXCEPT ![ExtBase.id].own =
                                    @ \cup r.heap[r.out.val.id].own]
                         ELSE r.heap,
                !.log = s.log \o
                    << Event("invoke", s.call, index, mixin, ExtBase),
                       Event(r.out.kind, s.call, index, mixin, r.out.val) >>,
                !.out = IF copy THEN Return(ExtBase) ELSE r.out]

\* mutant: the mixin is itself the callback of reduce, which calls it with
\* the accumulator, the element, the index and the array
Callback_forwardsIndex(s, ExtBase, mixin, index) ==
    IF ~IsCallable(mixin)
    THEN [s EXCEPT !.out = Throw(TypeErrorNotAFunction, "fold")]
    ELSE LET r == Call(mixin, s.heap, <<ExtBase, Val("prim", index)>>)
         IN  [s EXCEPT
                !.heap = r.heap,
                !.log = s.log \o
                    << Event("invoke", s.call, index, mixin, ExtBase),
                       Event(r.out.kind, s.call, index, mixin, r.out.val) >>,
                !.out = r.out]

\* (ExtBase, mixin) => mixin(ExtBase), as reduce calls it for element `index`.
\* s is the running program state [heap, log, out, call]; s.out is replaced
\* by the completion of the call expression.
Callback(s, ExtBase, mixin, index) ==
    IF ~IsCallable(mixin)
    THEN [s EXCEPT !.out = Throw(TypeErrorNotAFunction, "fold")]
    ELSE LET r == Call(mixin, s.heap, <<ExtBase>>)
         IN  [s EXCEPT
                !.heap = r.heap,
                !.log = s.log \o
                    << Event("invoke", s.call, index, mixin, ExtBase),
                       Event(r.out.kind, s.call, index, mixin, r.out.val) >>,
                !.out = r.out]

RECURSIVE reduceFrom(_, _, _)
\* the loop of Array.prototype.reduce from element k on (1-based); the
\* accumulator is s.out.val; an exception ends the loop
reduceFrom(arr, k, s) ==
    IF k > Len(arr) \/ s.out.kind = "throw"
    THEN s
    ELSE reduceFrom(arr, k + 1, Callback(s, s.out.val, arr[k], k - 1))

\* mutant: only as many elements as the typeguard evaluates are folded
reduce_upToLimit(arr, s, initialValue) ==
    reduceFrom(SubSeq(arr, 1, IF Len(arr) < TypeGuardLimit THEN Len(arr)
                              ELSE TypeGuardLimit),
               1, [s EXCEPT !.out = Return(initialValue)])

\* arr.reduce(callback, initialValue)
reduce(arr, s, initialValue) ==
    reduceFrom(arr, 1, [s EXCEPT !.out = Return(initialValue)])

\* mutant: the seed is a fresh `class {}` where the code passes Object
mixins_freshRoot(s, ms) ==
    reduce(ms, [s EXCEPT !.heap = Append(@, [parent |-> 0, own |-> {}])],
           Val("class", Len(s.heap) + 1))

\* mutant: the mixins are ordered before the fold, addA first
mixins_normalized(s, ms) ==
    reduce(SelectSeq(ms, LAMBDA e : e = "addA")
              \o SelectSeq(ms, LAMBDA e : e # "addA"), s, ObjectCtor)

\* the value of the last return event of the log, or v when there is none
LastReturned(lg, v) ==
    LET rs == SelectSeq(lg, LAMBDA e : e.ev = "return")
    IN  IF rs = <<>> THEN v ELSE rs[Len(rs)].val

\* mutant: the accumulator is a variable of the module, set to Object only
\* while no call has run, and so holds what the last call left
mixins_keepsAccumulator(s, ms) ==
    reduce(ms, s, LastReturned(s.log, ObjectCtor))

\* mutant: every mixin is applied to Object and the last result returned
mixins_eachOnSeed(s, ms) ==
    IF ms = <<>> THEN reduce(ms, s, ObjectCtor)
    ELSE LET r == reduce(SubSeq(ms, 1, Len(ms) - 1), s, ObjectCtor)
         IN  IF r.out.kind = "throw" THEN r
             ELSE reduce(<<ms[Len(ms)]>>, r, ObjectCtor)

\* export function mixins(...mixins)
mixins(s, ms) == reduce(ms, s, ObjectCtor)

Reverse(q) == [i \in 1..Len(q) |-> q[Len(q) + 1 - i]]

\* mutant: reduceRight where the code calls reduce
mixinsWith_reduceRight(s, Base, ms) == reduce(Reverse(ms), s, Base)

\* mutant: the accumulator is a variable of the module, set to Base only
\* while no call has run, and so holds what the last call left
mixinsWith_keepsAccumulator(s, Base, ms) ==
    reduce(ms, s, LastReturned(s.log, Base))

\* export function mixinsWith(Base, ...mixins)
mixinsWith(s, Base, ms) == reduce(ms, s, Base)

-----------------------------------------------------------------------------
(* The program: a caller makes up to MaxCalls calls with its arguments *)

RECURSIVE SeqsUpTo(_, _)
SeqsUpTo(S, n) ==
    IF n = 0 THEN {<<>>}
    ELSE LET shorter == SeqsUpTo(S, n - 1)
         IN  shorter \cup {Append(q, e) : q \in {x \in shorter : Len(x) = n - 1}, e \in S}

Bases == {ObjectCtor, MyBase, Five}

\* long argument lists: one entry kind throughout, but for one position
LongChains ==
    {[i \in 1..n |-> IF i = p THEN e ELSE f] :
        n \in (TypeGuardLimit + 1)..MaxLong, p \in 1..MaxLong, e \in Entries, f \in {"addA", "ident"}}

\* the program state a call starts from
Now == [heap |-> heap, log |-> log, out |-> Return(Undefined),
        call |-> Len(calls) + 1]

\* what stays as it is when a call is made
Frame == UNCHANGED <<chain, base, other, instance, it, ty, mg>>

\* caller `who` made a call that ran as r
DoneBy(who, op, b, r) ==
    /\ heap' = r.heap
    /\ log' = r.log
    /\ calls' = Append(calls, [op |-> op, base |-> b, h0 |-> heap,
                               n0 |-> Len(log), out |-> r.out, h1 |-> r.heap,
                               n1 |-> Len(r.log), who |-> who])
    /\ Frame

Done(op, b, r) == DoneBy(1, op, b, r)

CallMixins ==
    /\ Len(calls) < MaxCalls
    /\ Done("mixins", Undefined, mixins(Now, chain))

CallMixinsWith ==
    /\ Len(calls) < MaxCalls
    /\ Done("mixinsWith", base, mixinsWith(Now, base, chain))

\* the second caller calls the one function it uses, with its own arguments
OtherCall ==
    /\ Len(calls) < MaxCalls
    /\ other.op # "none"
    /\ IF other.op = "mixins"
       THEN DoneBy(2, "mixins", Undefined, mixins(Now, other.chain))
       ELSE DoneBy(2, "mixinsWith", other.base,
                   mixinsWith(Now, other.base, other.chain))

\* the initial values of the fields the scenario's classes declare: 0 and ""
FieldInit == [count |-> Val("prim", 0), label |-> Val("string", 0)]

RECURSIVE PathOf(_, _)
\* a class and its ancestors
PathOf(h, id) == IF id = 0 THEN {} ELSE {id} \cup PathOf(h, h[id].parent)

\* new C(): the fields of the object, each with its initial value
FieldsOf(h, id) ==
    { <<m, FieldInit[m]>> : m \in (UNION { h[k].own : k \in PathOf(h, id) })
                                    \cap DOMAIN FieldInit }

\* the value of field m among the fields fs
Field(fs, m) == (CHOOSE p \in fs : p[1] = m)[2]

\* increment() { this.count += 1 }
increment(fs) ==
    { p \in fs : p[1] # "count" }
        \cup { <<"count", Val("prim", Field(fs, "count").id + 1)>> }

\* no object made yet
NoInstance == [cls |-> 0, from |-> 0, fields |-> {}, incs |-> 0]

\* new C() for the class C that call c returned
Instantiate ==
    /\ instance = NoInstance
    /\ \E c \in 1..Len(calls) :
          /\ calls[c].out.kind = "return"
          /\ calls[c].out.val.t = "class"
          /\ instance' = [cls |-> calls[c].out.val.id, from |-> c,
                          fields |-> FieldsOf(heap, calls[c].out.val.id),
                          incs |-> 0]
    /\ UNCHANGED <<chain, base, heap, log, calls, other, it, ty, mg>>

\* obj.increment()
Increment ==
    /\ instance # NoInstance
    /\ HasMember(heap, instance.cls, "increment")
    /\ instance.incs < MaxCount
    /\ instance' = [instance EXCEPT !.fields = increment(@), !.incs = @ + 1]
    /\ UNCHANGED <<chain, base, heap, log, calls, other, it, ty, mg>>

\* no iteration
NoIteration == [dir |-> "none", from |-> {}, at |-> {}, steps |-> 0]

\* no evaluation of types
NoValidation == [fn |-> "none"]

\* no return type being evaluated
NoMerge == [fn |-> "none"]

StartState ==
    /\ heap = HeapInit
    /\ log = <<>>
    /\ calls = <<>>
    /\ instance = NoInstance

\* no second caller
NoOther == [op |-> "none", base |-> Undefined, chain |-> <<>>]

Init ==
    /\ chain \in SeqsUpTo(Entries, MaxLen)
    /\ base \in Bases
    /\ StartState
    /\ other = NoOther
    /\ ty = NoValidation
    /\ mg = NoMerge
    /\ it = NoIteration

InitLong ==
    /\ chain \in LongChains
    /\ base \in Bases
    /\ StartState
    /\ other = NoOther
    /\ ty = NoValidation
    /\ mg = NoMerge
    /\ it = NoIteration

\* the entries of the first caller when there are two callers
TwoEntries == {"addA", "addNeedsA", "addMut", "addThrow", "addOpt"}

\* what the second caller calls
OtherArgs ==
    { [op |-> "mixinsWith", base |-> MyBase, chain |-> <<"addMut", "addB">>],
      [op |-> "mixins", base |-> Undefined, chain |-> <<"addB", "addMut">>],
      [op |-> "mixinsWith", base |-> Five, chain |-> <<"ident", "addThrow">>],
      [op |-> "mixins", base |-> Undefined, chain |-> <<"addA", "notFn">>] }

InitTwo ==
    /\ chain \in SeqsUpTo(TwoEntries, MaxTwo)
    /\ base \in {ObjectCtor, MyBase}
    /\ StartState
    /\ other \in OtherArgs
    /\ ty = NoValidation
    /\ mg = NoMerge
    /\ it = NoIteration

Next == CallMixins \/ CallMixinsWith

NextTwo == CallMixins \/ CallMixinsWith \/ OtherCall

\* the entries of the counter and label scenario
ScenarioEntries == ScenarioAdders \cup {"addB"}

InitScenario ==
    /\ chain \in SeqsUpTo(ScenarioEntries, MaxScenario)
    /\ base \in {ObjectCtor, MyBase}
    /\ StartState
    /\ other = NoOther
    /\ ty = NoValidation
    /\ mg = NoMerge
    /\ it = NoIteration

NextScenario == CallMixins \/ CallMixinsWith \/ Instantiate \/ Increment

Spec == Init /\ [][Next]_vars

SpecLong == InitLong /\ [][Next]_vars

\* two callers whose calls interleave
SpecTwo == InitTwo /\ [][NextTwo]_vars

\* a caller that makes an object from a mixed class and uses it
SpecScenario == InitScenario /\ [][NextScenario]_vars

-----------------------------------------------------------------------------
(* Reference definitions the properties are stated with *)

AllAdders(ms) == \A i \in 1..Len(ms) : ms[i] \in Adders

Front(q) == SubSeq(q, 1, Len(q) - 1)

RECURSIVE Nest(_, _, _)
\* the expression fn(...f2(f1(X))...) evaluated on heap h, innermost first:
\* [heap, out]
Nest(fs, h, X) ==
    IF fs = <<>> THEN [heap |-> h, out |-> Return(X)]
    ELSE LET inner == Nest(Front(fs), h, X)
         IN  IF inner.out.kind = "throw" THEN inner
             ELSE ApplyAdder(fs[Len(fs)], inner.heap, inner.out.val)

\* the seed of a completed call
SeedOf(cl) == IF cl.op = "mixins" THEN ObjectCtor ELSE cl.base

\* what the adders observed during call c
Segment(c) == SubSeq(log, calls[c].n0 + 1, calls[c].n1)

Invokes(c) == SelectSeq(Segment(c), LAMBDA e : e.ev = "invoke")

RECURSIVE ShapeOf(_, _)
\* the own members of a class and of its ancestors, nearest first
ShapeOf(h, id) ==
    IF id = 0 THEN <<>> ELSE <<h[id].own>> \o ShapeOf(h, h[id].parent)

-----------------------------------------------------------------------------
(* C1: for every base X and adders f1..fn, mixinsWith(X, f1..fn) completes  *)
(* as fn(...f2(f1(X))...) does and mixins(f1..fn) as fn(...f2(f1(Object))): *)
(* same returned value (or exception) and same classes built, nothing       *)
(* added, dropped or reordered.                                             *)
C1_LeftFold ==
    \A c \in 1..Len(calls) :
        AllAdders(chain) =>
            LET cl == calls[c]
                n == Nest(chain, cl.h0, SeedOf(cl))
            IN  /\ cl.out = n.out
                /\ cl.h1 = n.heap
                /\ cl.out.kind = "return" =>
                      [i \in 1..Len(Invokes(c)) |-> Invokes(c)[i].fn] = chain

C1_Witness ==
    /\ chain = <<"addA", "addNeedsA", "addB">>
    /\ base = MyBase
    /\ Len(calls) = 2
    /\ calls[1].op = "mixinsWith" /\ calls[2].op = "mixins"
    /\ calls[1].out.kind = "return" /\ calls[2].out.kind = "return"
    /\ ShapeOf(heap, calls[1].out.val.id) = << {"b"}, {"na"}, {"a"}, {"STATIC_ONE"} >>

(* C2: with no adders nothing is invoked and the seed itself is returned:   *)
(* mixins() returns Object, mixinsWith(X) returns X, for any X.             *)
C2_EmptyChain ==
    \A c \in 1..Len(calls) :
        chain = <<>> =>
            /\ calls[c].out = Return(SeedOf(calls[c]))
            /\ Segment(c) = <<>>
            /\ calls[c].h1 = calls[c].h0

C2_Witness ==
    /\ chain = <<>>
    /\ base = Five
    /\ Len(calls) = 2
    /\ calls[1].op = "mixins" /\ calls[1].out.val = ObjectCtor
    /\ calls[2].op = "mixinsWith" /\ calls[2].out.val = Five

(* C3: in a call that returns, each of the n adders is invoked exactly      *)
(* once, in argument order, adder i only after adders 0..i-1 returned, and  *)
(* adder i receives the cumulative result of adders 0..i-1 on the seed.     *)
C3_OnceInOrder ==
    \A c \in 1..Len(calls) :
        calls[c].out.kind = "return" =>
            LET seg == Segment(c)
                n == Len(chain)
            IN  /\ Len(seg) = 2 * n
                /\ \A i \in 0..(n - 1) :
                      /\ seg[2 * i + 1] =
                            Event("invoke", c, i, chain[i + 1],
                                  Nest(SubSeq(chain, 1, i), calls[c].h0,
                                       SeedOf(calls[c])).out.val)
                      /\ seg[2 * i + 2].ev = "return"
                      /\ seg[2 * i + 2].idx = i
                      /\ seg[2 * i + 2].fn = chain[i + 1]

C3_Witness ==
    /\ chain = <<"addB", "addMut", "addUsesA">>
    /\ Len(calls) = 1
    /\ calls[1].out.kind = "return"
    /\ Len(Segment(1)) = 6

(* C4: if adder k throws, the call throws that same exception and returns   *)
(* no value, no adder after k is invoked, and adders 0..k-1 have each run   *)
(* exactly once with their effects on the heap left in place.               *)
C4_ThrowPropagates ==
    \A c \in 1..Len(calls) :
        LET seg == Segment(c)
            cl == calls[c]
        IN  \A j \in 1..Len(seg) :
                seg[j].ev = "throw" =>
                    LET k == seg[j].idx
                        before == Nest(SubSeq(chain, 1, k), cl.h0, SeedOf(cl))
                    IN  /\ cl.out = Throw(seg[j].val, "adder")
                        /\ j = Len(seg)
                        /\ \A e \in 1..Len(seg) : seg[e].idx <= k
                        /\ \A i \in 0..(k - 1) :
                              /\ Cardinality({e \in 1..Len(seg) :
                                    seg[e].ev = "invoke" /\ seg[e].idx = i}) = 1
                              /\ Cardinality({e \in 1..Len(seg) :
                                    seg[e].ev = "return" /\ seg[e].idx = i}) = 1
                        /\ before.out.kind = "return"
                        /\ cl.h1 = ApplyAdder(chain[k + 1], before.heap,
                                              before.out.val).heap

C4_Witness ==
    /\ chain = <<"addMut", "addThrow", "addA">>
    /\ base = MyBase
    /\ Len(calls) = 1
    /\ calls[1].op = "mixinsWith"
    /\ calls[1].out = Throw(E1, "adder")
    /\ "m" \in heap[MyBase.id].own
    /\ Len(Segment(1)) = 4

\* the state call c started from
StartOf(c) == [heap |-> calls[c].h0, log |-> SubSeq(log, 1, calls[c].n0),
               out |-> Return(Undefined), call |-> c]

\* what a run r of a call leaves, compared with what call c left
SameRun(r, c) ==
    /\ r.out = calls[c].out
    /\ r.heap = calls[c].h1
    /\ r.log = SubSeq(log, 1, calls[c].n1)

(* C5: mixins(f1..fn) and mixinsWith(Object, f1..fn) are the same           *)
(* operation: started from the same state they invoke the same adders with  *)
(* the same arguments in the same order and complete the same way.          *)
C5_SameModuloSeed ==
    \A c \in 1..Len(calls) :
        /\ calls[c].op = "mixins" =>
              SameRun(mixinsWith(StartOf(c), ObjectCtor, chain), c)
        /\ (calls[c].op = "mixinsWith" /\ calls[c].base = ObjectCtor) =>
              SameRun(mixins(StartOf(c), chain), c)

C5_Witness ==
    /\ chain = <<"addMut", "addA", "addNeedsA">>
    /\ base = ObjectCtor
    /\ Len(calls) = 2
    /\ calls[1].op = "mixins" /\ calls[2].op = "mixinsWith"
    /\ calls[1].out.kind = "return" /\ calls[2].out.kind = "return"

(* C6 as stated: whatever the argument list, a call fails only by an        *)
(* exception raised inside an adder; the fold itself never raises.          *)
C6_OnlyAddersRaise ==
    \A c \in 1..Len(calls) :
        calls[c].out.kind = "throw" => calls[c].out.by = "adder"

(* C6 amended: the fold validates nothing and has no throw of its own.  A   *)
(* call over callable entries fails only by an exception raised inside an   *)
(* adder; the one error of the fold itself is the TypeError of its call     *)
(* expression mixin(ExtBase) when it reaches an entry that is not callable, *)
(* after every earlier entry was invoked and returned.                      *)
C6_FoldRaisesOnlyForNonCallable ==
    \A c \in 1..Len(calls) :
        LET cl == calls[c]
            seg == Segment(c)
            reached == Len(Invokes(c))
        IN  /\ (cl.out.kind = "throw" /\ cl.out.by = "adder") =>
                  /\ seg # <<>>
                  /\ seg[Len(seg)].ev = "throw"
                  /\ seg[Len(seg)].val = cl.out.val
            /\ (cl.out.kind = "throw" /\ cl.out.by # "adder") =>
                  /\ cl.out = Throw(TypeErrorNotAFunction, "fold")
                  /\ reached < Len(chain)
                  /\ ~IsCallable(chain[reached + 1])
                  /\ AllAdders(SubSeq(chain, 1, reached))
                  /\ \A e \in 1..Len(seg) : seg[e].ev # "throw"
            /\ cl.out.kind = "return" => AllAdders(chain)
            /\ (AllAdders(chain) /\ cl.out.kind = "throw") => cl.out.by = "adder"

C6_Witness ==
    /\ chain = <<"addA", "notFn", "addB">>
    /\ Len(calls) = 1
    /\ calls[1].out = Throw(TypeErrorNotAFunction, "fold")
    /\ Len(Segment(1)) = 2

(* C7: the fold neither validates, coerces nor recovers: what adder i       *)
(* returns, a construct or not, is the one input of adder i+1, and what the *)
(* last adder returns is what the call returns; the first adder receives    *)
(* the seed.                                                                *)
C7_ValuesPassUnmodified ==
    \A c \in 1..Len(calls) :
        LET seg == Segment(c)
            cl == calls[c]
        IN  /\ \A j \in 1..Len(seg) :
                  seg[j].ev = "invoke" =>
                      /\ j = 1 => seg[j].val = SeedOf(cl)
                      /\ j > 1 => /\ seg[j - 1].ev = "return"
                                  /\ seg[j].val = seg[j - 1].val
            /\ (cl.out.kind = "return" /\ seg # <<>>) =>
                  /\ seg[Len(seg)].ev = "return"
                  /\ cl.out.val = seg[Len(seg)].val
            /\ (cl.out.kind = "return" /\ seg = <<>>) => cl.out.val = SeedOf(cl)

C7_Witness ==
    /\ chain = <<"addA", "retPrim", "ident">>
    /\ Len(calls) = 1
    /\ calls[1].out = Return(Five)
    /\ Segment(1)[5] = Event("invoke", 1, 2, "ident", Five)

\* the adders whose effect depends on what addA installs
DependOnA == {"addNeedsA", "addUsesA"}

\* the effect of a dependent adder applied on top of addA
EffectOnA(g) == IF g = "addNeedsA" THEN {"na"} ELSE {"ua1"}

\* call c made again from where it started, with the arguments ms
Replay(c, ms) ==
    IF calls[c].op = "mixins" THEN mixins(StartOf(c), ms)
    ELSE mixinsWith(StartOf(c), calls[c].base, ms)

(* C8: the order of the adders is never normalized.  The adders invoked are *)
(* the given ones in the given order, duplicates included; and for g        *)
(* depending on what f installs, the call with (f, g) yields g's effect on  *)
(* top of f's, while the call with (g, f) fails or yields another           *)
(* construct.                                                               *)
C8_OrderNotNormalized ==
    \A c \in 1..Len(calls) :
        LET cl == calls[c]
            inv == Invokes(c)
        IN  /\ Len(inv) <= Len(chain)
            /\ \A i \in 1..Len(inv) : inv[i].fn = chain[i] /\ inv[i].idx = i - 1
            /\ cl.out.kind = "return" => Len(inv) = Len(chain)
            /\ (Len(chain) = 2 /\ chain[1] = "addA" /\ chain[2] \in DependOnA
                    /\ SeedOf(cl).t = "class") =>
                  LET gf == Replay(c, <<chain[2], chain[1]>>)
                      shape == ShapeOf(cl.h1, cl.out.val.id)
                  IN  /\ cl.out.kind = "return"
                      /\ shape = << EffectOnA(chain[2]), {"a"} >>
                                    \o ShapeOf(cl.h0, SeedOf(cl).id)
                      /\ \/ gf.out.kind = "throw"
                         \/ ShapeOf(gf.heap, gf.out.val.id) # shape

C8_Witness ==
    /\ chain = <<"addA", "addNeedsA">>
    /\ Len(calls) = 1
    /\ calls[1].op = "mixins"
    /\ calls[1].out.kind = "return"
    /\ Replay(1, <<"addNeedsA", "addA">>).out =
          Throw(TypeErrorMemberNotAFunction, "adder")

\* the adders that build a new construct from their input
Builders == {"addA", "addB", "addNeedsA", "addUsesA"}

(* C9: mixinsWith(X, f...) does not mutate X: with adders that do not       *)
(* mutate their input X is the same before and after the call, and two      *)
(* calls with the same X and adders that build new constructs return two    *)
(* distinct constructs, each derived from the unchanged X, sharing no class *)
(* but X and its ancestors, the later call leaving the earlier result as it *)
(* was.                                                                     *)
C9_BaseNotMutated ==
    \A c \in 1..Len(calls) :
        LET cl == calls[c]
        IN  (cl.op = "mixinsWith" /\ cl.base.t = "class") =>
              /\ (\A i \in 1..Len(chain) : chain[i] # "addMut") =>
                    /\ cl.h1[cl.base.id] = cl.h0[cl.base.id]
                    /\ SubSeq(cl.h1, 1, Len(cl.h0)) = cl.h0
              /\ \A d \in 1..(c - 1) :
                    (/\ calls[d].op = "mixinsWith"
                     /\ chain # <<>>
                     /\ \A i \in 1..Len(chain) : chain[i] \in Builders
                     /\ calls[d].out.kind = "return"
                     /\ cl.out.kind = "return") =>
                        LET r1 == calls[d].out.val.id
                            r2 == cl.out.val.id
                        IN  /\ r1 # r2
                            /\ PathOf(heap, r1) \cap PathOf(heap, r2)
                                  = PathOf(heap, cl.base.id)
                            /\ ShapeOf(heap, r1) = ShapeOf(heap, r2)
                            /\ heap[cl.base.id] = HeapInit[cl.base.id]
                            /\ SubSeq(cl.h1, 1, Len(calls[d].h1)) = calls[d].h1

C9_Witness ==
    /\ chain = <<"addA", "addB">>
    /\ base = MyBase
    /\ Len(calls) = 2
    /\ calls[1].op = "mixinsWith" /\ calls[2].op = "mixinsWith"
    /\ calls[1].out = Return(Val("class", 4))
    /\ calls[2].out = Return(Val("class", 6))
    /\ heap[MyBase.id] = [parent |-> 0, own |-> {"STATIC_ONE"}]

(* C10: the runtime has no limit on the length of the chain: with more than *)
(* 20 adders every adder is still invoked once, in order, and the call      *)
(* completes as the full nested application does.                           *)
C10_NoLengthLimit ==
    \A c \in 1..Len(calls) :
        Len(chain) > TypeGuardLimit =>
            LET cl == calls[c]
                inv == Invokes(c)
            IN  /\ \A i \in 1..Len(inv) : inv[i].fn = chain[i] /\ inv[i].idx = i - 1
                /\ cl.out.kind = "return" => Len(inv) = Len(chain)
                /\ AllAdders(chain) =>
                      LET n == Nest(chain, cl.h0, SeedOf(cl))
                      IN  cl.out = n.out /\ cl.h1 = n.heap
                /\ (cl.out.kind = "throw" /\ cl.out.by = "adder") =>
                      ApplyAdder(chain[Len(inv)], cl.h0, inv[Len(inv)].val).out
                          .kind = "throw"

C10_Witness ==
    /\ Len(chain) = TypeGuardLimit + 2
    /\ chain[TypeGuardLimit + 2] = "addB"
    /\ Len(calls) = 1
    /\ calls[1].out = Return(Val("class", 2 + Len(chain)))
    /\ Len(Invokes(1)) = Len(chain)
    /\ Len(ShapeOf(heap, calls[1].out.val.id)) = Len(chain) + 1

-----------------------------------------------------------------------------
(* Two callers *)

\* the arguments call c was made with
ChainOf(c) == IF calls[c].who = 1 THEN chain ELSE other.chain

\* the operation of call c run from state s
RunAs(c, s) ==
    IF calls[c].op = "mixins" THEN mixins(s, ChainOf(c))
    ELSE mixinsWith(s, calls[c].base, ChainOf(c))

\* a completion, with a class it returns described by its members
OutView(h, out) ==
    [kind |-> out.kind, by |-> out.by, t |-> out.val.t,
     id |-> IF out.val.t = "class" THEN 0 ELSE out.val.id,
     shape |-> IF out.val.t = "class" THEN ShapeOf(h, out.val.id) ELSE <<>>]

\* what the adders observed, without the number of the call
EventsView(lg) ==
    [i \in 1..Len(lg) |-> [ev |-> lg[i].ev, idx |-> lg[i].idx, fn |-> lg[i].fn,
                           val |-> lg[i].val]]

\* what the adders observed, classes described by their kind only
KindsView(lg) ==
    [i \in 1..Len(lg) |-> [ev |-> lg[i].ev, idx |-> lg[i].idx, fn |-> lg[i].fn,
                           t |-> lg[i].val.t]]

RECURSIVE Alone(_, _)
\* the program state after caller w made its calls among calls 1..c on its
\* own, the calls of the other caller left out
Alone(w, c) ==
    IF c = 0
    THEN [heap |-> HeapInit, log |-> <<>>, out |-> Return(Undefined), call |-> 1]
    ELSE IF calls[c].who = w
         THEN RunAs(c, [Alone(w, c - 1) EXCEPT !.call = c])
         ELSE Alone(w, c - 1)

\* call d changed no class that call c starts from (its seed and ancestors)
LeavesSeedOf(c, d) ==
    LET seed == SeedOf(calls[c])
    IN  seed.t = "class" =>
            \A id \in PathOf(calls[c].h0, seed.id) :
                id <= Len(calls[d].h0) => calls[d].h1[id] = calls[d].h0[id]

(* C11: the library keeps no state.  A call completes as the same call on   *)
(* the same heap with no call before it does: nothing but the heap and the  *)
(* arguments decides it.  When the calls of two callers interleave and the  *)
(* other caller's calls leave the classes a call starts from as they were,  *)
(* the call completes as it does with that caller alone: same kind of       *)
(* completion, same exception or same members of the class returned, same   *)
(* adders invoked.                                                          *)
C11_NoSharedState ==
    \A c \in 1..Len(calls) :
        LET cl == calls[c]
            first == RunAs(c, [heap |-> cl.h0, log |-> <<>>,
                               out |-> Return(Undefined), call |-> 1])
            alone == Alone(cl.who, c)
            before == Alone(cl.who, c - 1)
        IN  /\ first.out = cl.out
            /\ first.heap = cl.h1
            /\ EventsView(first.log) = EventsView(Segment(c))
            /\ (\A d \in 1..(c - 1) :
                    calls[d].who # cl.who => LeavesSeedOf(c, d)) =>
                  /\ OutView(alone.heap, alone.out) = OutView(cl.h1, cl.out)
                  /\ KindsView(SubSeq(alone.log, Len(before.log) + 1,
                                      Len(alone.log)))
                        = KindsView(Segment(c))

C11_Witness ==
    /\ chain = <<"addA", "addNeedsA">>
    /\ base = MyBase
    /\ other.op = "mixins" /\ other.chain = <<"addB", "addMut">>
    /\ Len(calls) = 2
    /\ calls[1].who = 2 /\ calls[2].who = 1
    /\ calls[2].op = "mixinsWith"
    /\ calls[2].out.kind = "return"
    /\ ShapeOf(heap, calls[2].out.val.id) = << {"na"}, {"a"}, {"STATIC_ONE"} >>

-----------------------------------------------------------------------------
(* Determinism *)

\* the seed of call c as it is when the call starts, described by its members
SeedView(c) ==
    LET seed == SeedOf(calls[c])
    IN  [t |-> seed.t,
         id |-> IF seed.t = "class" THEN 0 ELSE seed.id,
         shape |-> IF seed.t = "class" THEN ShapeOf(calls[c].h0, seed.id)
                   ELSE <<>>]

\* what the adders of call c were given and what they returned, classes
\* described by their members
SeenBy(c) ==
    LET lg == Segment(c)
    IN  [i \in 1..Len(lg) |->
            [ev |-> lg[i].ev, idx |-> lg[i].idx, fn |-> lg[i].fn,
             t |-> lg[i].val.t,
             shape |-> IF lg[i].val.t = "class"
                       THEN ShapeOf(calls[c].h1, lg[i].val.id) ELSE <<>>]]

(* C12: two calls of the same function with the same adders in the same     *)
(* order, and a seed with the same members, complete in the same way: both  *)
(* return a class with the same members (or the same value), or both raise  *)
(* the same exception at the same entry, and their adders are invoked in    *)
(* the same order with the same arguments.                                   *)
C12_Deterministic ==
    \A c, d \in 1..Len(calls) :
        (/\ c < d
         /\ calls[c].op = calls[d].op
         /\ SeedView(c) = SeedView(d)) =>
            /\ OutView(calls[c].h1, calls[c].out)
                  = OutView(calls[d].h1, calls[d].out)
            /\ SeenBy(c) = SeenBy(d)

C12_Witness ==
    /\ chain = <<"addA", "addUsesA", "addB">>
    /\ Len(calls) = 2
    /\ calls[1].op = "mixins" /\ calls[2].op = "mixins"
    /\ calls[1].out.kind = "return" /\ calls[2].out.kind = "return"
    /\ calls[1].out.val # calls[2].out.val
    /\ Len(Segment(2)) = 6

-----------------------------------------------------------------------------
(* The counter and label scenario *)

(* C13: the class mixins(addCounter, addLabel) returns has the members of   *)
(* both mixins, an object made from it starts with count = 0 and label = "" *)
(* and has no other field, and after k calls of increment count is k while  *)
(* label, the set of fields and every class are as they were.               *)
C13_CounterAndLabel ==
    (/\ chain = <<"addCounter", "addLabel">>
     /\ instance # NoInstance
     /\ calls[instance.from].op = "mixins") =>
        /\ \A m \in {"count", "increment", "label"} :
                HasMember(heap, instance.cls, m)
        /\ { p[1] : p \in instance.fields } = {"count", "label"}
        /\ Cardinality(instance.fields) = 2
        /\ Field(instance.fields, "count") = Val("prim", instance.incs)
        /\ Field(instance.fields, "label") = Val("string", 0)
        /\ ShapeOf(heap, instance.cls)
              = << {"label"}, {"count", "increment"}, {} >>
        /\ calls[instance.from].h1 = SubSeq(heap, 1, Len(calls[instance.from].h1))

C13_Witness ==
    /\ chain = <<"addCounter", "addLabel">>
    /\ instance # NoInstance
    /\ calls[instance.from].op = "mixins"
    /\ instance.incs = 2
    /\ Field(instance.fields, "count") = Val("prim", 2)

-----------------------------------------------------------------------------
(* The types: iterators *)

(* A number literal type is the set of its one number, a union of them the  *)
(* set of their numbers and never the empty set.  A tuple type is its fixed *)
(* elements and the element type of its rest element.                       *)

\* type IterateBackwards = [never, 0, 1, 2, ..., 20, ...0[]]
IterateBackwards ==
    [fixed |-> << {}, {0}, {1}, {2}, {3}, {4}, {5}, {6}, {7}, {8}, {9}, {10}, {11},
                  {12}, {13}, {14}, {15}, {16}, {17}, {18}, {19}, {20} >>,
     rest |-> {0}]

\* mutant: the iterator starts at 0
IterateForwards_fromZero ==
    [fixed |-> << {0}, {1}, {2}, {3}, {4}, {5}, {6}, {7}, {8}, {9}, {10}, {11},
                  {12}, {13}, {14}, {15}, {16}, {17}, {18}, {19}, {20} >>,
     rest |-> {}]

\* type IterateForwards = [1, 2, 3, ..., 20, ...never[]]
IterateForwards ==
    [fixed |-> << {1}, {2}, {3}, {4}, {5}, {6}, {7}, {8}, {9}, {10}, {11},
                  {12}, {13}, {14}, {15}, {16}, {17}, {18}, {19}, {20} >>,
     rest |-> {}]

\* T[i] for a number i: the element at i, the rest element's type beyond
ElementAt(T, i) == IF i < Len(T.fixed) THEN T.fixed[i + 1] ELSE T.rest

\* T[Index]: the union of the elements at the numbers of Index
IndexedAccess(T, Index) == UNION { ElementAt(T, i) : i \in Index }

\* Index becomes IterateBackwards[Index]
StepBackwards ==
    /\ it.dir = "backwards"
    /\ it.at # {}
    /\ it' = [it EXCEPT !.from = it.at,
                        !.at = IndexedAccess(IterateBackwards, it.at),
                        !.steps = @ + 1]
    /\ UNCHANGED <<chain, base, heap, log, calls, other, instance, ty, mg>>

\* Index becomes IterateForwards[Index]
StepForwards ==
    /\ it.dir = "forwards"
    /\ it.at # {}
    /\ it' = [it EXCEPT !.from = it.at,
                        !.at = IndexedAccess(IterateForwards, it.at),
                        !.steps = @ + 1]
    /\ UNCHANGED <<chain, base, heap, log, calls, other, instance, ty, mg>>

InitIterate ==
    /\ chain = <<>>
    /\ base = ObjectCtor
    /\ StartState
    /\ other = NoOther
    /\ ty = NoValidation
    /\ mg = NoMerge
    /\ it \in { [dir |-> d, from |-> {}, at |-> {n}, steps |-> 0] :
                    d \in {"backwards", "forwards"}, n \in 0..MaxIndex }

NextIterate == StepBackwards \/ StepForwards

\* an index type moved along an iterator type until it is never
SpecIterate == InitIterate /\ [][NextIterate]_vars

\* the number of a number literal type
NumberOf(Index) == CHOOSE n \in Index : TRUE

(* C19: IterateBackwards[0] is never, IterateBackwards[n] is n - 1 for      *)
(* 1 <= n <= 20 and IterateBackwards[n] is 0 for every n above 20.          *)
C19_BackwardsAsDocumented ==
    (it.dir = "backwards" /\ it.steps > 0) =>
        LET n == NumberOf(it.from)
        IN  it.at = IF n = 0 THEN {}
                    ELSE IF n <= TypeGuardLimit THEN {n - 1}
                    ELSE {0}

C19_Witness ==
    /\ it.dir = "backwards"
    /\ it.steps = 1
    /\ it.from = {TypeGuardLimit + 1}
    /\ it.at = {TypeGuardLimit}

(* C20: IterateForwards[n] is n + 1 for 0 <= n <= 19 and never for every    *)
(* n from 20 on.                                                            *)
C20_Forwards ==
    (it.dir = "forwards" /\ it.steps > 0) =>
        LET n == NumberOf(it.from)
        IN  it.at = IF n < TypeGuardLimit THEN {n + 1} ELSE {}

C20_Witness ==
    /\ it.dir = "forwards"
    /\ it.steps = 21
    /\ it.from = {TypeGuardLimit}
    /\ it.at = {}

-----------------------------------------------------------------------------
(* The types: ValidateMixins *)

(* A class type is the set of the features (members) it declares: S extends *)
(* T when S has the features of T, and S & T has the features of both.  The *)
(* type of a mixin is what it requires of its Base and what it returns.     *)

\* type ClassType<T = {}, Args extends any[] = any[]> = new (...args: Args) => T
ClassType == {}

\* the arguments of the construct signatures of the class types
\* [data: Data, settings: Settings, ...args: any[]]
DataManArgs == "data, settings, ...args"
\* [stuff?: Stuff, ...args: any[]]
DataMonsterArgs == "stuff?, ...args"
\* any[]
AnyArgs == "...args"
\* [], the arguments of new ()
EmptyArgs == ""
\* [value?: any], the arguments of ObjectConstructor
ObjectArgs == "value?"
\* never, the Fallback of GetConstructorArgs
NeverArgs == "never"

\* declare var Object: ObjectConstructor, with new(value?: any): Object
TypeofObject == {"keys", ObjectArgs}

\* class MyBase<Info = {}> { static STATIC_ONE = 1; testInfo(info: Info): void {} }
\* MyBase declares no constructor: its construct signature is new ()
TypeofMyBase == {"STATIC_ONE", "testInfo", EmptyArgs}

\* a class with the members of MyBase and one more
TypeofMyOtherBase == TypeofMyBase \cup {"more"}

\* (Base: req) => ret
Mixin(req, ret) == [k |-> "mixin", req |-> req, ret |-> ret]

\* a type that is no function from a class to a class
Other(k) == [k |-> k, req |-> {}, ret |-> {}]

NeverT == Other("never")
UndefinedT == Other("undefined")
AnyT == Other("any")
\* the type "string" (a string literal type)
StringLiteral == Other("string")
\* () => {}
NoArgFunction == Other("function")
\* no rest element
NoRest == Other("none")

\* (Base: ClassType) => class Test1 extends Base { testMe(testInfo: Info): void {} }
TypeofMixinTest1 == Mixin(ClassType, {"testMe"})
\* (Base: ReturnType<typeof mixinTest1<Info>>) => class Test2 extends Base { }
TypeofMixinTest2 == Mixin({"testMe"}, {"testMe"})
\* (Base: ClassType) => class Mixin1 extends Base { someMember: number = 5; }
TypeofAddMixin1 == Mixin(ClassType, {"someMember"})
\* (Base: typeof MyBase<Info>) => class Mixin2 extends Base { enabled: boolean = false; }
TypeofAddMixin2 == Mixin(TypeofMyBase, TypeofMyBase \cup {"enabled"})

\* (Base: ReturnType<typeof addMixin2<Info>>) => class Mixin3 extends Base { }
TypeofAddMixin3 ==
    Mixin(TypeofMyBase \cup {"enabled"}, TypeofMyBase \cup {"enabled"})

\* (Base: ClassType) => ClassType
MixinForm == Mixin(ClassType, ClassType)

\* a tuple type: its fixed elements and the type of its rest element
TupleT(fixed, rest) == [k |-> "tuple", fixed |-> fixed, rest |-> rest]

\* the type never where a tuple type is expected
NeverTuple == [k |-> "never", fixed |-> <<>>, rest |-> NoRest]

\* X is assignable to T (a function type's parameter compared both ways)
Assignable(X, T) ==
    CASE T.k = "any" -> TRUE
      [] T.k = "never" -> FALSE
      [] T.k = "mixin" ->
            /\ X.k = "mixin"
            /\ T.ret \subseteq X.ret
            /\ (T.req \subseteq X.req \/ X.req \subseteq T.req)
      [] OTHER -> X = T

\* X extends T ? true : false where X is no naked type parameter: the
\* branches taken (both for any, the true branch for never)
Extends(X, T) ==
    IF X.k = "any" THEN (IF T.k = "any" THEN {TRUE} ELSE {TRUE, FALSE})
    ELSE IF X.k = "never" THEN {TRUE}
    ELSE {Assignable(X, T)}

\* type IncludesValue<Arr, Val> =
\*   { [Key in keyof Arr]: Arr[Key] extends Val ? true : false }[number]
\*       extends false ? false : true
IncludesValue(Arr, Value) ==
    LET elements == IF Arr.k = "never" THEN {}
                    ELSE { Arr.fixed[i] : i \in 1..Len(Arr.fixed) }
                            \cup (IF Arr.rest = NoRest THEN {} ELSE {Arr.rest})
        mapped == UNION { Extends(X, Value) : X \in elements }
    IN  ~ (mapped \subseteq {FALSE})

\* BaseClass extends Parameters<Mixin>[0]
Fits(BaseClass, M) == M.req \subseteq BaseClass

\* IncludesValue<Processed, never> extends true ? [...Processed, ...any] : Mixins
TooFar(v) ==
    IF IncludesValue(TupleT(v.Processed, NoRest), NeverT)
    THEN TupleT(v.Processed, AnyT)
    ELSE TupleT(v.Mixins, NoRest)

\* the evaluation ends with type T
Returns(v, T) == [v EXCEPT !.kind = "done", !.result = T]

\* Mixins[i]: undefined beyond the end of a tuple type with no rest element
MixinAt(Mixins, i) == IF i < Len(Mixins) THEN Mixins[i + 1] ELSE UndefinedT

\* ValidateMixins<Mixins, BaseClass> with Processed = [] and Index = 0
Start(fn, Base, BaseClass, Mixins) ==
    [fn |-> fn, Mixins |-> Mixins, Base |-> Base, BaseClass |-> BaseClass,
     Processed |-> <<>>, Index |-> {0}, checked |-> <<>>, kind |-> "run",
     result |-> NeverTuple, includes |-> FALSE]

\* mutant: only a mixin that met its requirement adds its return type
ValidateMixins_onlyPassed(v) ==
    IF v.Index = {} THEN Returns(v, NeverTuple)
    ELSE LET i == NumberOf(v.Index)
             entry == MixinAt(v.Mixins, i)
         IN  IF i = Len(v.Mixins) THEN Returns(v, TupleT(v.Processed, NoRest))
             ELSE IF TRUE \in Extends(entry, UndefinedT) THEN Returns(v, TooFar(v))
             ELSE IF TRUE \in Extends(entry, MixinForm)
             THEN [v EXCEPT !.BaseClass = IF Fits(v.BaseClass, entry)
                                          THEN @ \cup entry.ret ELSE @,
                            !.Processed = Append(@, IF Fits(v.BaseClass, entry)
                                                    THEN entry ELSE NeverT),
                            !.Index = IndexedAccess(IterateForwards, v.Index),
                            !.checked = Append(@, i)]
             ELSE [v EXCEPT !.Processed = Append(@, NeverT),
                            !.Index = IndexedAccess(IterateForwards, v.Index),
                            !.checked = Append(@, i)]

\* type ValidateMixins<Mixins, BaseClass, Processed, Index>, unfolded once:
\* the type it results in, or the type arguments it continues with.  The
\* conditional type distributes over Index, so it is never when Index is.
ValidateMixins(v) ==
    IF v.Index = {} THEN Returns(v, NeverTuple)
    ELSE LET i == NumberOf(v.Index)
             entry == MixinAt(v.Mixins, i)
         IN  \* Index extends Mixins["length"] ? Processed
             IF i = Len(v.Mixins) THEN Returns(v, TupleT(v.Processed, NoRest))
             \* Index extends never ? ...
             ELSE IF v.Index \subseteq {} THEN Returns(v, TooFar(v))
             \* Mixins[Index] extends undefined ? ...
             ELSE IF TRUE \in Extends(entry, UndefinedT) THEN Returns(v, TooFar(v))
             \* Mixins[Index] extends (Base: ClassType) => ClassType ? ...
             ELSE IF TRUE \in Extends(entry, MixinForm)
             THEN [v EXCEPT !.BaseClass = @ \cup entry.ret,
                            !.Processed = Append(@, IF Fits(v.BaseClass, entry)
                                                    THEN entry ELSE NeverT),
                            !.Index = IndexedAccess(IterateForwards, v.Index),
                            !.checked = Append(@, i)]
             ELSE [v EXCEPT !.Processed = Append(@, NeverT),
                            !.Index = IndexedAccess(IterateForwards, v.Index),
                            !.checked = Append(@, i)]

\* mutant: mixinsWith validates against the default base class
mixinsWithParameters_defaultBase(Base, Mixins) ==
    Start("mixinsWith", Base, ClassType, Mixins)

\* mixins(...mixins: ValidateMixins<Mixins>)
mixinsParameters(Mixins) == Start("mixins", ClassType, ClassType, Mixins)

\* mixinsWith(Base: Base, ...mixins: ValidateMixins<Mixins, Base>)
mixinsWithParameters(Base, Mixins) == Start("mixinsWith", Base, Base, Mixins)

\* the types of the arguments a tuple of mixins is made of
TypeEntries ==
    {TypeofMixinTest1, TypeofMixinTest2, TypeofAddMixin1, TypeofAddMixin2,
     TypeofAddMixin3, StringLiteral, NoArgFunction, UndefinedT}

\* the types of the base classes passed to mixinsWith
TypeBases == {TypeofObject, TypeofMyBase, TypeofMyOtherBase}

\* tuples of TypeGuardLimit - 1 to MaxLongTuple mixins, one of the elements
\* or none another type
LongTuples ==
    {[i \in 1..n |-> IF i = p THEN e ELSE TypeofMixinTest1] :
        n \in (TypeGuardLimit - 1)..MaxLongTuple, p \in 1..MaxLongTuple,
        e \in {TypeofMixinTest1, TypeofAddMixin2, StringLiteral}}

\* the compiler unfolds ValidateMixins once more
Validate ==
    /\ ty.fn # "none"
    /\ ty.kind = "run"
    /\ ty' = ValidateMixins(ty)
    /\ UNCHANGED <<chain, base, heap, log, calls, other, instance, it, mg>>

\* IncludesValue<ValidateMixins<...>, never> is evaluated
Includes ==
    /\ ty.fn # "none"
    /\ ty.kind = "done"
    /\ ty' = [ty EXCEPT !.kind = "included",
                        !.includes = IncludesValue(ty.result, NeverT)]
    /\ UNCHANGED <<chain, base, heap, log, calls, other, instance, it, mg>>

\* no call is made
Idle ==
    /\ chain = <<>>
    /\ base = ObjectCtor
    /\ StartState
    /\ other = NoOther
    /\ it = NoIteration

InitTypes ==
    /\ Idle
    /\ mg = NoMerge
    /\ \E Mixins \in SeqsUpTo(TypeEntries, MaxTuple) :
          \/ ty = mixinsParameters(Mixins)
          \/ \E Base \in TypeBases : ty = mixinsWithParameters(Base, Mixins)

InitLongTypes ==
    /\ Idle
    /\ mg = NoMerge
    /\ \E Mixins \in LongTuples :
          \/ ty = mixinsParameters(Mixins)
          \/ ty = mixinsWithParameters(TypeofMyBase, Mixins)

NextTypes == Validate \/ Includes

\* the parameter types of a call of mixins / mixinsWith are evaluated
SpecTypes == InitTypes /\ [][NextTypes]_vars

SpecLongTypes == InitLongTypes /\ [][NextTypes]_vars

-----------------------------------------------------------------------------
(* The evaluation of a chain of mixin types *)

\* an evaluation has ended
Evaluated == ty.fn # "none" /\ ty.kind # "run"

\* the base class intersected with the outputs of the mixins before the i-th
CumulativeBase(i) ==
    ty.Base \cup UNION { ty.Mixins[j].ret : j \in 1..(i - 1) }

\* the i-th entry is a mixin whose requirement the classes before it meet
Valid(i) ==
    /\ ty.Mixins[i].k = "mixin"
    /\ ty.Mixins[i].req \subseteq CumulativeBase(i)

(* C14: for a chain of at most 20 entries ValidateMixins results in a tuple *)
(* of the length of the chain whose position i holds entry i when the entry *)
(* is a mixin and the base class together with the outputs of all earlier   *)
(* mixins meets its requirement, and never otherwise; every position is     *)
(* evaluated, whatever the positions before it came to.                     *)
C14_EveryPositionEvaluated ==
    (Evaluated /\ Len(ty.Mixins) <= TypeGuardLimit) =>
        /\ ty.result.k = "tuple"
        /\ ty.result.rest = NoRest
        /\ Len(ty.result.fixed) = Len(ty.Mixins)
        /\ \A i \in 1..Len(ty.Mixins) :
                ty.result.fixed[i] = IF Valid(i) THEN ty.Mixins[i] ELSE NeverT
        /\ ty.checked = [i \in 1..Len(ty.Mixins) |-> i - 1]

C14_Witness ==
    /\ Evaluated
    /\ ty.fn = "mixins"
    /\ ty.Mixins = <<UndefinedT, TypeofMixinTest2>>
    /\ ty.result = TupleT(<<UndefinedT, TypeofMixinTest2>>, NoRest)
    /\ ty.checked = <<>>

\* position i of the result holds the type T
ResultAt(i, T) ==
    /\ ty.result.k = "tuple"
    /\ i <= Len(ty.result.fixed)
    /\ ty.result.fixed[i] = T

(* C15: a mixin that requires something is checked against the base class   *)
(* together with the outputs of all the mixins before it: it is kept at its *)
(* position when one of them provides what it requires, wherever before it  *)
(* that one stands, and replaced by never when none does.                   *)
C15_Continuum ==
    Evaluated =>
        \A i \in 1..Len(ty.Mixins) :
            (ty.Mixins[i].k = "mixin" /\ ty.Mixins[i].req # ClassType) =>
                IF ty.Mixins[i].req \subseteq CumulativeBase(i)
                THEN ResultAt(i, ty.Mixins[i])
                ELSE ResultAt(i, NeverT)

C15_Witness ==
    /\ Evaluated
    /\ ty.fn = "mixinsWith"
    /\ ty.Base = TypeofObject
    /\ ty.Mixins = <<TypeofAddMixin1, UndefinedT, TypeofMixinTest2>>
    /\ ResultAt(3, TypeofMixinTest2)

(* C16: the first mixin is checked against the base class passed to         *)
(* mixinsWith and against plain ClassType by mixins: it is kept when that   *)
(* class has what it requires and replaced by never when not, so a mixin    *)
(* that requires MyBase is kept by mixinsWith(MyBase, mixin) and by         *)
(* mixinsWith of a class with the members of MyBase, and replaced by never  *)
(* by mixinsWith(Object, mixin) and by mixins(mixin).                       *)
C16_SeededWithBase ==
    (Evaluated /\ Len(ty.Mixins) >= 1 /\ ty.Mixins[1].k = "mixin") =>
        LET seed == IF ty.fn = "mixinsWith" THEN ty.Base ELSE ClassType
        IN  /\ IF ty.Mixins[1].req \subseteq seed
               THEN ResultAt(1, ty.Mixins[1])
               ELSE ResultAt(1, NeverT)
            /\ ty.Mixins[1] = TypeofAddMixin2 =>
                  (ResultAt(1, TypeofAddMixin2)
                      <=> (/\ ty.fn = "mixinsWith"
                           /\ ty.Base \in {TypeofMyBase, TypeofMyOtherBase}))

C16_Witness ==
    /\ Evaluated
    /\ ty.fn = "mixinsWith"
    /\ ty.Base = TypeofMyOtherBase
    /\ ty.Mixins = <<TypeofAddMixin2>>
    /\ ty.result = TupleT(<<TypeofAddMixin2>>, NoRest)

(* C17: of a chain of more than 20 entries exactly the first 20 are checked *)
(* for being a mixin and for their requirement, and none after the 20th.    *)
C17_FirstTwentyOnly ==
    (Evaluated /\ Len(ty.Mixins) > TypeGuardLimit) =>
        ty.checked = [i \in 1..TypeGuardLimit |-> i - 1]

C17_Witness ==
    /\ Evaluated
    /\ Len(ty.Mixins) = TypeGuardLimit + 1
    /\ \A i \in 1..Len(ty.Mixins) : ty.Mixins[i] = TypeofMixinTest1
    /\ Len(ty.checked) = TypeGuardLimit + 1
    /\ ty.result = NeverTuple

(* C18: IncludesValue<ValidateMixins<M>, never> is true exactly when an     *)
(* element of the resulting tuple is never, that is exactly when            *)
(* ValidateMixins replaced an entry of M by never, that is exactly when the *)
(* chain is invalid; it is false for the empty tuple.                       *)
C18_TrueWhenInvalid ==
    (ty.fn # "none" /\ ty.kind = "included") =>
        /\ ty.includes
              = (/\ ty.result.k = "tuple"
                 /\ \E i \in 1..Len(ty.result.fixed) :
                        Assignable(ty.result.fixed[i], NeverT)
                            \/ ty.result.fixed[i] = NeverT)
        /\ ty.includes = (\E i \in 1..Len(ty.Mixins) : ResultAt(i, NeverT))
        /\ ty.includes = (\E i \in 1..Len(ty.Mixins) : ~ Valid(i))

C18_Witness ==
    /\ ty.fn = "mixins"
    /\ ty.kind = "included"
    /\ ty.Mixins = <<UndefinedT, TypeofAddMixin2>>
    /\ ~ ty.includes

-----------------------------------------------------------------------------
(* The arguments of an adder *)

(* C27: an adder is called with one argument, the accumulated construct:    *)
(* the index and the array reduce passes to its callback do not reach it,   *)
(* so a mixin with an optional second parameter finds it absent at every    *)
(* position of the chain, and every class it builds is the one it builds    *)
(* without the parameter.                                                   *)
C27_OneArgument ==
    /\ \A id \in 1..Len(heap) : "gotExtra" \notin heap[id].own
    /\ \A c \in 1..Len(calls) :
          LET lg == Segment(c)
          IN  \A i \in 1..Len(lg) :
                 (lg[i].ev = "return" /\ lg[i].fn \in OptionalAdders) =>
                    /\ lg[i].val.t = "class"
                    /\ "noExtra" \in heap[lg[i].val.id].own
                    /\ "gotExtra" \notin heap[lg[i].val.id].own
                    /\ heap[lg[i].val.id].parent = lg[i - 1].val.id

C27_Witness ==
    /\ chain = <<"addA", "addOpt">>
    /\ Len(calls) >= 1
    /\ calls[1].who = 1
    /\ calls[1].out.kind = "return"
    /\ heap[calls[1].out.val.id].own = {"noExtra"}
    /\ Segment(1)[3].idx = 1

-----------------------------------------------------------------------------
(* The cumulative base of ValidateMixins *)

(* C26: the base class an entry is checked against is the seed together     *)
(* with the return type of every mixin before it, the ones replaced by      *)
(* never included, and nothing for an entry that is no mixin; so a mixin    *)
(* whose requirement is provided by an earlier mixin that was itself        *)
(* replaced by never is kept.                                               *)
C26_FailedMixinStillProvides ==
    ty.fn # "none" =>
        /\ ty.BaseClass
              = ty.Base \cup UNION { ty.Mixins[j + 1].ret :
                                        j \in { ty.checked[n] : n \in 1..Len(ty.checked) }
                                                \cap { j \in 0..Len(ty.Mixins) :
                                                        MixinAt(ty.Mixins, j).k = "mixin" } }
        /\ \A i \in 1..Len(ty.Processed) :
              ty.Processed[i] = IF Valid(i) THEN ty.Mixins[i] ELSE NeverT
        /\ \A i, j \in 1..Len(ty.Processed) :
              (/\ i < j
               /\ ty.Mixins[i].k = "mixin" /\ ty.Processed[i] = NeverT
               /\ ty.Mixins[j].k = "mixin"
               /\ ty.Mixins[j].req \subseteq ty.Base \cup ty.Mixins[i].ret)
                    => ty.Processed[j] = ty.Mixins[j]

C26_Witness ==
    /\ Evaluated
    /\ ty.fn = "mixins"
    /\ ty.Mixins = <<TypeofAddMixin2, TypeofAddMixin3>>
    /\ ty.result = TupleT(<<NeverT, TypeofAddMixin3>>, NoRest)

-----------------------------------------------------------------------------
(* The end of the evaluation before the end of the chain *)

\* the evaluation ended before the last entry: the chain is longer than the
\* limit, or the entry after the evaluated ones is undefined
EndedEarly ==
    /\ Evaluated
    /\ \/ Len(ty.Mixins) > TypeGuardLimit
       \/ /\ Len(ty.Processed) < Len(ty.Mixins)
          /\ ty.Mixins[Len(ty.Processed) + 1] = UndefinedT

(* C25: when the chain is longer than ValidateMixins iterates, or the next  *)
(* entry is undefined, the result is decided by the evaluated entries: the  *)
(* processed entries followed by a rest element any when one of them was    *)
(* replaced by never, and the tuple Mixins unchanged when none was.         *)
C25_PrefixDecides ==
    EndedEarly =>
        ty.result = IF \E i \in 1..Len(ty.Processed) : ty.Processed[i] = NeverT
                    THEN TupleT(ty.Processed, AnyT)
                    ELSE TupleT(ty.Mixins, NoRest)

C25_Witness ==
    /\ Evaluated
    /\ Len(ty.Mixins) = TypeGuardLimit + 2
    /\ ty.Mixins[3] = StringLiteral
    /\ ty.Processed[3] = NeverT
    /\ ty.result = NeverTuple

-----------------------------------------------------------------------------
(* The return type of a call: MergeMixins and its variants *)

\* the construct signatures of the class types, by their arguments; a class
\* type with none of them has new (...args: any[]), as ClassType has
ConstructSignatures == {EmptyArgs, ObjectArgs, DataManArgs, DataMonsterArgs}

\* a type with no construct signature
NoClass == {"no construct signature"}

\* the members of the instance side of the class types
InstanceMembers == {"testMe", "someMember", "enabled", "testInfo", "data", "settings"}

\* interface DataManType extends ClassType<DataMan, [data, settings, ...args]>
DataManType == {"data", "settings", DataManArgs}

\* (Base: ClassType) => DataManType<Data, Settings> & TBase
TypeofAddDataMan == Mixin(ClassType, DataManType)
\* (Base: DataManType) => AsClass<DataManType, DataMan, [stuff?: Stuff, ...args: any[]]>
TypeofAddDataMonster == Mixin(DataManType, {"data", "settings", DataMonsterArgs})

\* InstanceType<T> of a class type
InstanceType(T) == T \cap InstanceMembers

\* GetConstructorArgs<T>: the arguments of the construct signature of T
GetConstructorArgs(T) ==
    IF T = NoClass THEN NeverArgs
    ELSE IF T \cap ConstructSignatures = {} THEN AnyArgs
    ELSE CHOOSE a \in T \cap ConstructSignatures : TRUE

\* the type never where a class type is expected
NeverClass == [k |-> "never", static |-> {}, instance |-> {}, args |-> "never"]

\* AsClass<Class, Instance, ConstructorArgs>:
\* Omit<Class, "new"> & { new (...args: ConstructorArgs): Instance }
AsClass(Class, Instance, ConstructorArgs) ==
    [k |-> "class",
     static |-> Class \ (InstanceMembers \cup ConstructSignatures),
     instance |-> Instance,
     args |-> ConstructorArgs]

\* InstanceType<C> of a merged class
InstanceOf(C) ==
    IF C.k = "never" THEN NeverClass
    ELSE [k |-> "instance", static |-> {}, instance |-> C.instance, args |-> "none"]

\* ReturnType<Mixins[Index]>
ReturnTypeAt(Mixins, Index) == MixinAt(Mixins, NumberOf(Index)).ret

\* mutant: the default index is the length minus one, whatever the length
DefaultIndex_last(Mixins) ==
    IF Len(Mixins) = 0 THEN {} ELSE {Len(Mixins) - 1}

\* the default of Index:
\* Mixins["length"] extends 0 ? never : IterateBackwards[Mixins["length"]]
DefaultIndex(Mixins) ==
    IF Len(Mixins) = 0 THEN {}
    ELSE IndexedAccess(IterateBackwards, {Len(Mixins)})

\* the default of ConstructorArgs: Mixins["length"] extends 0 ? any[] :
\* GetConstructorArgs<ReturnType<Mixins[IterateBackwards[Mixins["length"]]]>>
DefaultConstructorArgs(Mixins) ==
    IF Len(Mixins) = 0 THEN AnyArgs
    ELSE GetConstructorArgs(
            ReturnTypeAt(Mixins, IndexedAccess(IterateBackwards, {Len(Mixins)})))

\* MergeMixins<Mixins, ConstructorArgs, Class, Instance, Index> to be evaluated
StartMerge(fn, Base, Mixins, ConstructorArgs, Class, Instance, Index) ==
    [fn |-> fn, Base |-> Base, Mixins |-> Mixins,
     ConstructorArgs |-> ConstructorArgs,
     Class |-> Class, Instance |-> Instance, Index |-> Index,
     visited |-> <<>>, kind |-> "run", result |-> NeverClass]

\* MergeMixins<Mixins>
MergeMixinsDefaults(Mixins) ==
    StartMerge("MergeMixins", {}, Mixins, DefaultConstructorArgs(Mixins),
               {}, {}, DefaultIndex(Mixins))

\* MixinsInstance<Mixins>: InstanceType<MergeMixins<Mixins, ConstructorArgs>>
MixinsInstance(Mixins) ==
    StartMerge("MixinsInstance", {}, Mixins, DefaultConstructorArgs(Mixins),
               {}, {}, DefaultIndex(Mixins))

\* MergeMixinsWith<BaseClass, Mixins>:
\* MergeMixins<Mixins, ConstructorArgs, BaseClass, InstanceType<BaseClass>>
MergeMixinsWith(BaseClass, Mixins) ==
    StartMerge("MergeMixinsWith", BaseClass, Mixins, DefaultConstructorArgs(Mixins),
               BaseClass, InstanceType(BaseClass), DefaultIndex(Mixins))

\* MixinsInstanceWith<BaseClass, Mixins>:
\* InstanceType<MergeMixins<Mixins, ConstructorArgs, BaseClass, InstanceType<BaseClass>>>
MixinsInstanceWith(BaseClass, Mixins) ==
    StartMerge("MixinsInstanceWith", BaseClass, Mixins, DefaultConstructorArgs(Mixins),
               BaseClass, InstanceType(BaseClass), DefaultIndex(Mixins))

\* the variants that take the instance type of the merged class
InstanceVariants == {"MixinsInstance", "MixinsInstanceWith"}

\* the evaluation ends with the type T
Ends(m, T) == [m EXCEPT !.kind = "done", !.result = T]

\* mutant: the mixin at index 0 is not merged
MergeMixins_leavesFirst(m) ==
    IF m.Index = {} THEN Ends(m, NeverClass)
    ELSE LET i == NumberOf(m.Index)
             R == ReturnTypeAt(m.Mixins, m.Index)
         IN  IF i = 0
             THEN [Ends(m, AsClass(m.Class, m.Instance, m.ConstructorArgs))
                      EXCEPT !.visited = Append(@, i)]
             ELSE [m EXCEPT !.Class = @ \cup R,
                            !.Instance = @ \cup InstanceType(R),
                            !.Index = IndexedAccess(IterateBackwards, m.Index),
                            !.visited = Append(@, i)]

\* mutant: the instance side is that of the first mixin alone
MergeMixins_replaces(m) ==
    IF m.Index = {} THEN Ends(m, NeverClass)
    ELSE LET i == NumberOf(m.Index)
             R == ReturnTypeAt(m.Mixins, m.Index)
         IN  IF i = 0
             THEN [Ends(m, AsClass(m.Class \cup R, InstanceType(R), m.ConstructorArgs))
                      EXCEPT !.visited = Append(@, i)]
             ELSE [m EXCEPT !.Class = @ \cup R,
                            !.Instance = @ \cup InstanceType(R),
                            !.Index = IndexedAccess(IterateBackwards, m.Index),
                            !.visited = Append(@, i)]

\* one unfolding of MergeMixins. Index is a naked type parameter, so the
\* conditional type distributes over it and never gives never
MergeMixins(m) ==
    IF m.Index = {} THEN Ends(m, NeverClass)
    ELSE LET i == NumberOf(m.Index)
             R == ReturnTypeAt(m.Mixins, m.Index)
         IN  IF i = 0
             THEN [Ends(m, AsClass(m.Class \cup R, m.Instance \cup InstanceType(R),
                                   m.ConstructorArgs))
                      EXCEPT !.visited = Append(@, i)]
             ELSE [m EXCEPT !.Class = @ \cup R,
                            !.Instance = @ \cup InstanceType(R),
                            !.Index = IndexedAccess(IterateBackwards, m.Index),
                            !.visited = Append(@, i)]

\* InstanceType<MergeMixins<...>> of the instance variants
Project(m) == [m EXCEPT !.kind = "instance", !.result = InstanceOf(m.result)]

\* the compiler unfolds MergeMixins once more
Merge ==
    /\ mg.fn # "none"
    /\ mg.kind = "run"
    /\ mg' = MergeMixins(mg)
    /\ UNCHANGED <<chain, base, heap, log, calls, other, instance, it, ty>>

\* the compiler takes the instance type of the merged class
TakeInstance ==
    /\ mg.fn \in InstanceVariants
    /\ mg.kind = "done"
    /\ mg' = Project(mg)
    /\ UNCHANGED <<chain, base, heap, log, calls, other, instance, it, ty>>

\* the types of the mixins of the merged chains
MergeEntries ==
    {TypeofMixinTest1, TypeofMixinTest2, TypeofAddMixin1, TypeofAddMixin2,
     TypeofAddDataMan, TypeofAddDataMonster}

\* the types of the base classes of the merged chains
MergeBases == {TypeofObject, TypeofMyBase, DataManType}

\* the four types of a chain, and of a chain with a base
MergesOf(Chains, Bases_) ==
    {MergeMixinsDefaults(M) : M \in Chains}
        \cup {MixinsInstance(M) : M \in Chains}
        \cup {MergeMixinsWith(B, M) : B \in Bases_, M \in Chains}
        \cup {MixinsInstanceWith(B, M) : B \in Bases_, M \in Chains}

\* tuples of TypeGuardLimit - 1 to MaxLongTuple mixins, one of the elements
\* or none with other members and constructor arguments
LongMergeTuples ==
    {[i \in 1..n |-> IF i = p THEN e ELSE TypeofMixinTest1] :
        n \in (TypeGuardLimit - 1)..MaxLongTuple, p \in 1..MaxLongTuple,
        e \in {TypeofMixinTest1, TypeofAddDataMan, TypeofAddDataMonster}}

InitMerge ==
    /\ Idle
    /\ ty = NoValidation
    /\ mg \in MergesOf(SeqsUpTo(MergeEntries, MaxTuple), MergeBases)

InitLongMerge ==
    /\ Idle
    /\ ty = NoValidation
    /\ mg \in MergesOf(LongMergeTuples, {TypeofMyBase})

NextMerge == Merge \/ TakeInstance

\* the return type of a call of mixins / mixinsWith is evaluated
SpecMerge == InitMerge /\ [][NextMerge]_vars

SpecLongMerge == InitLongMerge /\ [][NextMerge]_vars

\* the evaluation of the type alias has ended
Merged ==
    /\ mg.fn # "none"
    /\ mg.kind = IF mg.fn \in InstanceVariants THEN "instance" ELSE "done"

\* the evaluation to its end
RECURSIVE MergeAll(_)
MergeAll(m) ==
    IF m.kind = "run" THEN MergeAll(MergeMixins(m))
    ELSE IF m.kind = "done" /\ m.fn \in InstanceVariants THEN Project(m)
    ELSE m

\* the same type alias over the chain P
Restart(m, P) ==
    CASE m.fn = "MergeMixins" -> MergeMixinsDefaults(P)
      [] m.fn = "MixinsInstance" -> MixinsInstance(P)
      [] m.fn = "MergeMixinsWith" -> MergeMixinsWith(m.Base, P)
      [] m.fn = "MixinsInstanceWith" -> MixinsInstanceWith(m.Base, P)

\* Class and Instance intersected with what every mixin of the chain returns
AllMerged(m) ==
    LET s == Restart(m, m.Mixins)
        all == UNION { m.Mixins[j].ret : j \in 1..Len(m.Mixins) }
    IN  AsClass(s.Class \cup all, s.Instance \cup InstanceType(all), m.ConstructorArgs)

-----------------------------------------------------------------------------
(* The indexes MergeMixins visits *)

(* C21: for a chain of 1 to 20 mixins MergeMixins visits the indexes from    *)
(* the length minus one down to 0, each once, and ends with the class whose  *)
(* static side is Class with the return type of every mixin and whose        *)
(* instance side is Instance with the instance type of every mixin.          *)
C21_EveryIndexOnce ==
    (mg.fn # "none" /\ Len(mg.Mixins) \in 1..TypeGuardLimit) =>
        LET n == Len(mg.Mixins)
        IN  /\ Len(mg.visited) <= n
            /\ mg.visited = [j \in 1..Len(mg.visited) |-> n - j]
            /\ mg.kind = "run" => mg.Index = {n - 1 - Len(mg.visited)}
            /\ mg.kind # "run" => Len(mg.visited) = n
            /\ mg.kind = "done" => mg.result = AllMerged(mg)
            /\ mg.kind = "instance" => mg.result = InstanceOf(AllMerged(mg))

\* a chain of 20 mixins, the first with members of its own, is merged
C21_Witness ==
    /\ mg.fn = "MergeMixinsWith"
    /\ Len(mg.Mixins) = TypeGuardLimit
    /\ mg.Mixins[1] = TypeofAddDataMan
    /\ mg.kind = "done"
    /\ Len(mg.visited) = TypeGuardLimit
    /\ mg.result.instance = {"testInfo", "testMe", "data", "settings"}
    /\ mg.result.static = {"STATIC_ONE"}

-----------------------------------------------------------------------------
(* The default constructor arguments *)

(* C22: the default constructor arguments of MergeMixins, MixinsInstance,    *)
(* MergeMixinsWith and MixinsInstanceWith are those of the class the last    *)
(* mixin of the chain returns, and any[] for the empty chain.                *)
C22_ArgsOfTheLast ==
    Merged =>
        LET n == Len(mg.Mixins)
        IN  mg.ConstructorArgs = IF n = 0 THEN AnyArgs
                                 ELSE GetConstructorArgs(mg.Mixins[n].ret)

\* 22 mixins, the last with the arguments of DataMonster: the merged class
\* has the arguments of the first mixin
C22_Witness ==
    /\ mg.fn = "MergeMixins"
    /\ Len(mg.Mixins) = TypeGuardLimit + 2
    /\ mg.Mixins[Len(mg.Mixins)] = TypeofAddDataMonster
    /\ mg.kind = "done"
    /\ mg.result.args = AnyArgs

-----------------------------------------------------------------------------
(* The order of the mixins *)

\* the chain of m in the order f
Reordered(m, f) == [j \in 1..Len(m.Mixins) |-> m.Mixins[f[j]]]

(* C23: MergeMixins does not evaluate the chain: the static side and the     *)
(* instance side of the merged type of up to 20 mixins are the same in       *)
(* every order of the mixins.                                                *)
C23_AnyOrder ==
    (Merged /\ Len(mg.Mixins) <= TypeGuardLimit) =>
        \A f \in Permutations(1..Len(mg.Mixins)) :
            LET r == MergeAll(Restart(mg, Reordered(mg, f))).result
            IN  /\ r.k = mg.result.k
                /\ r.static = mg.result.static
                /\ r.instance = mg.result.instance

\* a mixin that requires another one precedes it, and both are merged
C23_Witness ==
    /\ mg.fn = "MergeMixins"
    /\ mg.Mixins = <<TypeofAddDataMonster, TypeofAddDataMan, TypeofAddMixin1>>
    /\ mg.kind = "done"
    /\ mg.result.instance = {"data", "settings", "someMember"}
    /\ mg.result.args = AnyArgs
    /\ MergeAll(MergeMixinsDefaults(<<TypeofAddMixin1, TypeofAddDataMan,
                                      TypeofAddDataMonster>>)).result.args
            = DataMonsterArgs

-----------------------------------------------------------------------------
(* The variants of MergeMixins *)

(* C24: MergeMixinsWith<Base, Mixins> is MergeMixins<Mixins, Args, Base,     *)
(* InstanceType<Base>>, so the merged class has the static members and the   *)
(* instance members of the base and of every mixin; MixinsInstanceWith is    *)
(* the instance side of MergeMixinsWith and MixinsInstance is the instance   *)
(* side of MergeMixins.                                                      *)
C24_WithIsSeededMerge ==
    Merged =>
        LET M == mg.Mixins
            seeded == StartMerge("MergeMixins", mg.Base, M, mg.ConstructorArgs,
                                 mg.Base, InstanceType(mg.Base), DefaultIndex(M))
            all == mg.Base \cup UNION { M[j].ret : j \in 1..Len(M) }
        IN  /\ mg.fn = "MergeMixinsWith" =>
                /\ mg.result = MergeAll(seeded).result
                /\ mg.result.k = "class"
                /\ all \ (InstanceMembers \cup ConstructSignatures)
                        \subseteq mg.result.static
                /\ InstanceType(all) \subseteq mg.result.instance
            /\ mg.fn = "MixinsInstanceWith" =>
                mg.result = InstanceOf(MergeAll(MergeMixinsWith(mg.Base, M)).result)
            /\ mg.fn = "MixinsInstance" =>
                mg.result = InstanceOf(MergeAll(MergeMixinsDefaults(M)).result)

\* MergeMixinsWith<typeof MyBase, []> is never
C24_Witness ==
    /\ mg.fn = "MergeMixinsWith"
    /\ mg.Base = TypeofMyBase
    /\ mg.Mixins = <<>>
    /\ mg.kind = "done"
    /\ mg.result = NeverClass

-----------------------------------------------------------------------------
(* MergeMixins beyond the reach of IterateBackwards *)

\* an adder for a mixin of the type T: the members of the class of addB stand
\* for those of any mixin other than mixinTest1
AdderOf(T) == IF T = TypeofMixinTest1 THEN "addA" ELSE "addB"

\* the program state after addDataMan(Object):
\* class DataMan extends Base { data; settings }
WithDataMan ==
    [Now EXCEPT !.heap = ClassExtends(heap, ObjectCtor, {"data", "settings"}).heap]

\* the call whose return type m is
CallOf(m) ==
    LET ms == [j \in 1..Len(m.Mixins) |-> AdderOf(m.Mixins[j])]
    IN  IF m.fn \in {"MergeMixinsWith", "MixinsInstanceWith"}
        THEN CASE m.Base = TypeofObject -> mixinsWith(Now, ObjectCtor, ms)
               [] m.Base = TypeofMyBase -> mixinsWith(Now, MyBase, ms)
               [] m.Base = DataManType ->
                    mixinsWith(WithDataMan, Val("class", Len(heap) + 1), ms)
        ELSE mixins(Now, ms)

(* C28: for 22 or more mixins the default index and the default constructor  *)
(* arguments come from IterateBackwards[length] = 0: MergeMixins merges the   *)
(* first mixin alone and takes the arguments of its class, and no later      *)
(* mixin is in the merged type, while the call applies every mixin.          *)
C28_OnlyTheFirst ==
    (mg.fn # "none" /\ Len(mg.Mixins) >= TypeGuardLimit + 2) =>
        LET M == mg.Mixins
            s == Restart(mg, M)
            first == AsClass(s.Class \cup M[1].ret,
                             s.Instance \cup InstanceType(M[1].ret),
                             GetConstructorArgs(M[1].ret))
            r == CallOf(mg)
        IN  /\ mg.ConstructorArgs = GetConstructorArgs(M[1].ret)
            /\ mg.kind = "run" => mg.Index = {0} /\ mg.visited = <<>>
            /\ mg.kind # "run" => mg.visited = <<0>>
            /\ mg.kind = "done" => mg.result = first
            /\ mg.kind = "instance" => mg.result = InstanceOf(first)
            /\ r.out.kind = "return"
            /\ Len(ShapeOf(r.heap, r.out.val.id)) = Len(M) + 1

\* 22 mixins, the last one addDataMonster: the merged class has neither its
\* members nor its constructor arguments, and the class of the call has the
\* members of the adder at the last position
C28_Witness ==
    /\ mg.fn = "MergeMixinsWith"
    /\ Len(mg.Mixins) = TypeGuardLimit + 2
    /\ mg.Mixins[TypeGuardLimit + 2] = TypeofAddDataMonster
    /\ mg.kind = "done"
    /\ mg.visited = <<0>>
    /\ mg.result = AsClass({"STATIC_ONE"}, {"testInfo", "testMe"}, AnyArgs)
    /\ ShapeOf(CallOf(mg).heap, CallOf(mg).out.val.id)[1] = {"b"}

=============================================================================
